---- MODULE Spec2Model ----
(***************************************************************************)
(* Model of the mpv render thread of src-tauri/src/lib.rs: the closure     *)
(* spawned in run() (lines 77-190) sets up glutin display / surface /      *)
(* context, the mpv engine and its render context, registers the two       *)
(* callbacks that feed one mpsc channel, and then consumes that channel.   *)
(* Every expect()/unwrap() is a panic; the stack is then unwound and the   *)
(* locals are dropped in reverse declaration order, as on `return`.        *)
(***************************************************************************)
EXTENDS Integers, Sequences, FiniteSets, TLC

\* ---- bounds of the model ------------------------------------------------
MaxDim == 1          \* window width and height range over 0..MaxDim
MaxResizes == 1      \* resizes performed by the host
MaxSends == 2        \* send attempts made by the two callbacks together
MaxEvents == 2       \* events the engine queues

VARIABLES
  pc,             \* position of the background thread
  owned,          \* live locals of the thread that own a resource, in declaration order
  released,       \* resources dropped so far, in drop order
  exitCause,      \* why the thread left (or never entered) the loop; "none" while it has not
  atExit,         \* lengths of the logs when the thread started to unwind
  setupLog,       \* setup steps performed (attempted), in order
  winSize,        \* inner size of the host window, <<width, height>>
  startZero,      \* the window had a zero dimension when the thread was spawned
  attrZero,       \* what build_surface_attributes read: "zero" for a size with a
                  \* zero dimension, else "nonzero"; "unread" before it ran
  resizes,        \* resizes done so far
  makeCurrentCalls, \* calls of make_current
  currentOn,      \* thread the context is current on, "none" if on none
  chan,           \* items in the mpsc channel, oldest first, each with the number
                  \* of resizes the window had seen at its send
  sentLog,        \* every item a send() accepted, in send order
  sendAttempts,   \* send() calls made by the callbacks
  handled,        \* items the for-loop received, in order
  cbFailed,       \* a callback panicked on the thread that called it
  updateCb,       \* update callback registered on the render context
  wakeupCb,       \* wakeup callback registered on mpv
  wakeupPending,  \* mpv owes a call of the wakeup callback
  engineQueue,    \* mpv's event queue, oldest first
  unsignalled,    \* how many events at the head of the queue were queued with no
                  \* wakeup callback set and no wakeup owed since
  emitted,        \* events mpv has queued so far
  polled,         \* events returned by wait_event, in order
  pollCalls,      \* calls of wait_event
  drainSnapshot,  \* ids of the events queued when the last MpvEvents item was received
  renderLog,      \* render calls: whether the size used is the window's size at
                  \* that moment, and the result
  zeroRendered,   \* a render call was given a size with a zero dimension
  firstStale,     \* index in renderLog of the first call for an item sent before
                  \* the window's last resize, 0 if there is none
  swapLog,        \* swap_buffers calls
  gpuCalls        \* the render and swap_buffers calls in the order they were made

vars == <<pc, owned, released, exitCause, atExit, setupLog, winSize, startZero,
          attrZero, resizes, makeCurrentCalls, currentOn, chan, sentLog,
          sendAttempts, handled, cbFailed, updateCb, wakeupCb, wakeupPending, engineQueue,
          unsignalled, emitted, polled, pollCalls, drainSnapshot, renderLog, zeroRendered,
          firstStale, swapLog,
          gpuCalls>>

winVars == <<winSize, startZero, resizes>>
chanVars == <<chan, sentLog, sendAttempts, handled, cbFailed>>
engineVars == <<wakeupPending, engineQueue, unsignalled, emitted, polled, pollCalls,
                drainSnapshot>>
gpuVars == <<renderLog, zeroRendered, firstStale, swapLog, gpuCalls>>
cbVars == <<updateCb, wakeupCb>>
ctxVars == <<makeCurrentCalls, currentOn>>

\* ---- values ---------------------------------------------------------------
Sizes == (0..MaxDim) \X (0..MaxDim)
Redraw == "Redraw"
MpvEvents == "MpvEvents"
EventKinds == {"EndOfMedia", "Error", "Other"}
SetupSteps == <<"handles", "display", "attrs", "config", "surface", "context",
                "activate", "engine", "bridge", "channel", "regUpdate",
                "regWakeup", "load">>
SetupStepSet == {SetupSteps[i] : i \in 1..Len(SetupSteps)}
Range(s) == {s[i] : i \in 1..Len(s)}
Last(s) == s[Len(s)]
RemoveAt(s, i) == SubSeq(s, 1, i - 1) \o SubSeq(s, i + 1, Len(s))
Alive(r) == r \in Range(owned)
\* a channel item as the program sees it: the variant, and the rank of its send
Tag(item) == [tag |-> item.tag, id |-> item.id]
CountsOf(h, p, n, r, s) ==
  [handled |-> Len(h), polled |-> Len(p), pollCalls |-> n, renders |-> Len(r),
   swaps |-> Len(s)]
Counts == CountsOf(handled, polled, pollCalls, renderLog, swapLog)

\* a non_zero that looks at the width only
NonZeroWidthOnly(size) == size[1] # 0

\* PhysicalSize::non_zero: both dimensions must be non-zero
NonZero(size) == size[1] # 0 /\ size[2] # 0

\* make_current called by the setup closure on the UI thread, before the spawn
ActivatingThreadUi == "ui"

\* the thread make_current runs on: the spawned closure
ActivatingThread == "background"

\* a rejected load command that is dropped with .ok() instead of unwrap()
FailTargetIgnoreLoad(step) == IF step = "load" THEN "recv" ELSE "teardown"

\* where a failed setup step leads: expect()/unwrap() panic, the thread unwinds
FailTarget(step) == "teardown"

\* a receive that serves a pending Redraw before anything else
RecvIndexRedrawFirst(ch) ==
  IF \E i \in 1..Len(ch) : ch[i].tag = "Redraw"
    THEN CHOOSE i \in 1..Len(ch) :
           ch[i].tag = "Redraw" /\ \A j \in 1..(i - 1) : ch[j].tag # "Redraw"
    ELSE 1

\* `for event in event_rx`: the item received is the oldest one in the channel
RecvIndex(ch) == 1

\* a render at a size fixed in the code instead of the one queried
RenderSizeFixed(item) == <<1, 1>>

\* `let size = window.inner_size()` in the Redraw arm: the size the window has
\* when the item is handled (the item itself carries none)
RenderSize(item) == winSize

\* a render whose error is dropped
OnRenderResultIgnore(ok) == "swap"

\* a Redraw arm that renders and goes back to the channel without a swap
OnRenderResultNoSwap(ok) == IF ok THEN "recv" ELSE "teardown"

\* render(..).expect(..): a failed render panics, otherwise swap_buffers is next
OnRenderResult(ok) == IF ok THEN "swap" ELSE "teardown"

\* swap_buffers(..).expect(..): a failed swap panics, otherwise the loop goes on
OnSwapResult(ok) == IF ok THEN "recv" ELSE "teardown"

\* `if let` in place of `while let`: one event per MpvEvents item
AfterPollOnce(kind) ==
  IF kind = "EndOfMedia" THEN "teardown"
  ELSE IF kind = "Error" THEN "teardown"
  ELSE "recv"

\* an EndFile arm that only logs
AfterPollIgnoreEnd(kind) ==
  IF kind = "Error" THEN "teardown" ELSE "drain"

\* an Err arm that only logs
AfterPollIgnoreError(kind) ==
  IF kind = "EndOfMedia" THEN "teardown" ELSE "drain"

\* a match whose every arm returns
AfterPollAnyEnds(kind) == "teardown"

\* the match on a polled event inside `while let Some(..) = mpv.wait_event(0.0)`:
\* EndFile and Err return from the closure, any other event is logged and the
\* while loop polls again
AfterPoll(kind) ==
  IF kind = "EndOfMedia" THEN "teardown"
  ELSE IF kind = "Error" THEN "teardown"
  ELSE "drain"

\* locals dropped in declaration order
NextToReleaseFirst(o) == 1

\* drop order of the locals: the last declared is dropped first
NextToRelease(o) == Len(o)

\* a send whose error is unwrapped inside the callback
OnSendErrorPanic == "panic"

\* `.ok()` after send (lines 142, 146): the Err of a send without receiver is dropped
OnSendError == "ignore"

\* a wait_event with a timeout that waits for an event
PollReadyBlocking(q) == q # <<>>

\* mpv.wait_event(0.0): a zero timeout, the call returns at once, with None when
\* the queue is empty
PollReady(q) == TRUE

\* a closure whose body is retried in a loop after the unwinding
ThreadEndRestart == "recv"

\* the end of the spawned closure (line 190): the thread is over
ThreadEnd == "done"

Init ==
  /\ pc = "handles"
  /\ owned = <<>>
  /\ released = <<>>
  /\ exitCause = "none"
  /\ atExit = CountsOf(<<>>, <<>>, 0, <<>>, <<>>)
  /\ setupLog = <<>>
  /\ winSize \in Sizes
  /\ startZero = (winSize[1] = 0 \/ winSize[2] = 0)
  /\ attrZero = "unread"
  /\ resizes = 0
  /\ makeCurrentCalls = 0
  /\ currentOn = "none"
  /\ chan = <<>>
  /\ sentLog = <<>>
  /\ sendAttempts = 0
  /\ handled = <<>>
  /\ updateCb = FALSE
  /\ wakeupCb = FALSE
  /\ wakeupPending = FALSE
  /\ engineQueue = <<>>
  /\ unsignalled = 0
  /\ emitted = 0
  /\ polled = <<>>
  /\ pollCalls = 0
  /\ drainSnapshot = {}
  /\ renderLog = <<>>
  /\ zeroRendered = FALSE
  /\ firstStale = 0
  /\ swapLog = <<>>
  /\ gpuCalls = <<>>
  /\ cbFailed = FALSE

\* ---- setup ----------------------------------------------------------------
\* one setup step: it succeeds and the thread goes on to `next`, acquiring
\* `acq` (a sequence of zero or one resource), or it panics
Step(step, ok, next, acq) ==
  /\ pc = step
  /\ setupLog' = Append(setupLog, step)
  /\ IF ok
       THEN /\ pc' = next
            /\ owned' = owned \o acq
            /\ UNCHANGED <<exitCause, atExit>>
       ELSE /\ pc' = FailTarget(step)
            /\ exitCause' = step
            /\ atExit' = Counts
            /\ UNCHANGED owned
  /\ UNCHANGED released

\* window.window_handle().unwrap(), window.display_handle().unwrap()
GetHandles ==
  /\ \E ok \in BOOLEAN : Step("handles", ok, "display", <<>>)
  /\ UNCHANGED <<attrZero, winVars, ctxVars, chanVars, cbVars, engineVars, gpuVars>>

\* Display::new(..).expect(..)
CreateDisplay ==
  /\ \E ok \in BOOLEAN : Step("display", ok, "attrs", <<"Display">>)
  /\ UNCHANGED <<attrZero, winVars, ctxVars, chanVars, cbVars, engineVars, gpuVars>>

\* window.build_surface_attributes(..).unwrap(): reads the inner size, panics
\* on a zero dimension, then needs the window handle
BuildSurfaceAttributes ==
  /\ \E handleOk \in BOOLEAN :
       Step("attrs", NonZero(winSize) /\ handleOk, "config", <<>>)
  /\ attrZero' = IF winSize[1] = 0 \/ winSize[2] = 0 THEN "zero" ELSE "nonzero"
  /\ UNCHANGED <<winVars, ctxVars, chanVars, cbVars, engineVars, gpuVars>>

\* find_configs(..).unwrap().next().expect(..)
SelectConfig ==
  /\ \E ok \in BOOLEAN : Step("config", ok, "surface", <<>>)
  /\ UNCHANGED <<attrZero, winVars, ctxVars, chanVars, cbVars, engineVars, gpuVars>>

\* create_window_surface(..).expect(..)
CreateSurface ==
  /\ \E ok \in BOOLEAN : Step("surface", ok, "context", <<"Surface">>)
  /\ UNCHANGED <<attrZero, winVars, ctxVars, chanVars, cbVars, engineVars, gpuVars>>

\* a setup that creates the context and goes on to the engine without
\* making it current
CreateContextNoActivate ==
  /\ \E ok \in BOOLEAN : Step("context", ok, "engine", <<"Context">>)
  /\ UNCHANGED <<attrZero, winVars, ctxVars, chanVars, cbVars, engineVars, gpuVars>>

\* create_context(..).expect(..)
CreateContext ==
  /\ \E ok \in BOOLEAN : Step("context", ok, "activate", <<"Context">>)
  /\ UNCHANGED <<attrZero, winVars, ctxVars, chanVars, cbVars, engineVars, gpuVars>>

\* context.make_current(&surface).expect(..): the call consumes `context`;
\* on success current_context takes its place among the locals, on failure
\* the context is gone before the panic unwinds the rest
MakeCurrent ==
  /\ pc = "activate"
  /\ setupLog' = Append(setupLog, "activate")
  /\ makeCurrentCalls' = makeCurrentCalls + 1
  /\ \E ok \in BOOLEAN :
       IF ok
         THEN /\ pc' = "engine"
              /\ currentOn' = ActivatingThread
              /\ UNCHANGED <<owned, released, exitCause, atExit>>
         ELSE /\ pc' = FailTarget("activate")
              /\ exitCause' = "activate"
              /\ atExit' = Counts
              /\ owned' = SubSeq(owned, 1, Len(owned) - 1)
              /\ released' = Append(released, "Context")
              /\ UNCHANGED currentOn
  /\ UNCHANGED <<attrZero, winVars, chanVars, cbVars, engineVars, gpuVars>>

\* Mpv::with_initializer(..).expect(..)
CreateEngine ==
  /\ \E ok \in BOOLEAN : Step("engine", ok, "bridge", <<"Engine">>)
  /\ UNCHANGED <<attrZero, winVars, ctxVars, chanVars, cbVars, engineVars, gpuVars>>

\* RenderContext::new(..).expect(..)
CreateBridge ==
  /\ \E ok \in BOOLEAN : Step("bridge", ok, "channel", <<"Bridge">>)
  /\ UNCHANGED <<attrZero, winVars, ctxVars, chanVars, cbVars, engineVars, gpuVars>>

\* mpsc::channel() and the clone of the sender
CreateChannel ==
  /\ Step("channel", TRUE, "regUpdate", <<"Receiver">>)
  /\ UNCHANGED <<attrZero, winVars, ctxVars, chanVars, cbVars, engineVars, gpuVars>>

\* render_context.set_update_callback(..)
RegisterUpdate ==
  /\ Step("regUpdate", TRUE, "regWakeup", <<>>)
  /\ updateCb' = TRUE
  /\ UNCHANGED <<attrZero, winVars, ctxVars, chanVars, wakeupCb, engineVars, gpuVars>>

\* mpv.set_wakeup_callback(..): whether mpv calls a callback once when it is
\* set is up to the library, both are allowed
RegisterWakeup ==
  /\ Step("regWakeup", TRUE, "load", <<>>)
  /\ wakeupCb' = TRUE
  /\ \E fire \in BOOLEAN :
       /\ wakeupPending' = fire
       /\ unsignalled' = IF fire THEN 0 ELSE unsignalled
  /\ UNCHANGED <<attrZero, winVars, ctxVars, chanVars, updateCb, engineQueue, emitted,
                 polled, pollCalls, drainSnapshot, gpuVars>>

\* mpv.command("loadfile", ..).unwrap()
LoadFile ==
  /\ \E ok \in BOOLEAN : Step("load", ok, "recv", <<>>)
  /\ UNCHANGED <<attrZero, winVars, ctxVars, chanVars, cbVars, engineVars, gpuVars>>

\* ---- teardown -------------------------------------------------------------
\* the closure returns or unwinds: one local is dropped per step (a thread that
\* comes out of the loop has dropped the receiver already)
Release ==
  /\ pc = "teardown"
  /\ IF owned = <<>>
       THEN /\ pc' = ThreadEnd
            /\ UNCHANGED <<owned, released, chan, updateCb, wakeupCb, wakeupPending,
                           engineQueue, unsignalled, currentOn>>
       ELSE LET i == NextToRelease(owned)
                r == owned[i]
            IN /\ pc' = "teardown"
               /\ owned' = RemoveAt(owned, i)
               /\ released' = Append(released, r)
               /\ chan' = IF r = "Receiver" THEN <<>> ELSE chan
               /\ updateCb' = IF r = "Bridge" THEN FALSE ELSE updateCb
               /\ wakeupCb' = IF r = "Engine" THEN FALSE ELSE wakeupCb
               /\ wakeupPending' = IF r = "Engine" THEN FALSE ELSE wakeupPending
               /\ engineQueue' = IF r = "Engine" THEN <<>> ELSE engineQueue
               /\ unsignalled' = IF r = "Engine" THEN 0 ELSE unsignalled
               /\ currentOn' = IF r = "Context" THEN "none" ELSE currentOn
  /\ UNCHANGED <<exitCause, atExit, setupLog, attrZero, winVars, makeCurrentCalls,
                 sentLog, sendAttempts, handled, cbFailed, emitted, polled,
                 pollCalls, drainSnapshot, gpuVars>>

\* ---- leaving the loop ------------------------------------------------------
\* a return or a panic inside `for event in event_rx` leaves the loop, which
\* drops the receiver the loop iterates over; from `ch`, what is left of the
\* channel if the loop goes on
LeaveOrStay(next, ch) ==
  IF next = "teardown"
    THEN /\ owned' = SelectSeq(owned, LAMBDA r : r # "Receiver")
         /\ released' = Append(released, "Receiver")
         /\ chan' = <<>>
    ELSE /\ chan' = ch
         /\ UNCHANGED <<owned, released>>

\* ---- the host, the engine and the two callbacks ---------------------------
\* the host resizes the window (UI thread); once the thread has left the loop
\* nothing reads the size any more
Resize ==
  /\ pc \notin {"teardown", "done"}
  /\ resizes < MaxResizes
  /\ \E sz \in Sizes \ {winSize} : winSize' = sz
  /\ resizes' = resizes + 1
  /\ UNCHANGED <<pc, owned, released, exitCause, atExit, setupLog, startZero, attrZero,
                 ctxVars, chanVars, cbVars, engineVars, gpuVars>>

\* a callback that sends its tag twice per call
SendTwice(tag) ==
  /\ sendAttempts < MaxSends
  /\ sendAttempts' = sendAttempts + 1
  /\ LET item == [tag |-> tag, id |-> sendAttempts + 1, epoch |-> resizes]
     IN IF Alive("Receiver")
          THEN /\ chan' = chan \o <<item, item>>
               /\ sentLog' = sentLog \o <<Tag(item), Tag(item)>>
          ELSE UNCHANGED <<chan, sentLog>>
  /\ UNCHANGED <<handled, cbFailed>>

\* tx.send(tag).ok(): the item is queued while the receiver exists, otherwise
\* send returns Err and .ok() drops it
Send(tag) ==
  /\ sendAttempts < MaxSends
  /\ sendAttempts' = sendAttempts + 1
  /\ LET item == [tag |-> tag, id |-> sendAttempts + 1, epoch |-> resizes]
     IN IF Alive("Receiver")
          THEN /\ chan' = Append(chan, item)
               /\ sentLog' = Append(sentLog, Tag(item))
               /\ UNCHANGED cbFailed
          ELSE /\ UNCHANGED <<chan, sentLog>>
               /\ cbFailed' = (cbFailed \/ OnSendError = "panic")
  /\ UNCHANGED handled

\* the update callback of the render context, on a thread of mpv
UpdateCallback ==
  /\ updateCb
  /\ Send(Redraw)
  /\ UNCHANGED <<pc, owned, released, exitCause, atExit, setupLog, attrZero, winVars,
                 ctxVars, cbVars, engineVars, gpuVars>>

\* mpv queues an event and owes its client a wakeup if a callback is set
EngineEmit ==
  /\ Alive("Engine")
  /\ emitted < MaxEvents
  /\ \E kind \in EventKinds :
       engineQueue' = Append(engineQueue, [kind |-> kind, id |-> emitted + 1])
  /\ emitted' = emitted + 1
  /\ wakeupPending' = (wakeupPending \/ wakeupCb)
  /\ unsignalled' = IF wakeupCb THEN unsignalled ELSE unsignalled + 1
  /\ UNCHANGED <<pc, owned, released, exitCause, atExit, setupLog, attrZero, winVars,
                 ctxVars, chanVars, cbVars, polled, pollCalls, drainSnapshot, gpuVars>>

\* the wakeup callback of mpv, on a thread of mpv; one call may stand for
\* several queued events
WakeupCallback ==
  /\ wakeupCb
  /\ wakeupPending
  /\ Send(MpvEvents)
  /\ wakeupPending' = FALSE
  /\ UNCHANGED <<pc, owned, released, exitCause, atExit, setupLog, attrZero, winVars,
                 ctxVars, cbVars, engineQueue, unsignalled, emitted, polled,
                 pollCalls, drainSnapshot, gpuVars>>

\* ---- the event loop ------------------------------------------------------
\* the loop receives a Redraw: size query, render, swap
RecvRedraw ==
  /\ pc = "recv"
  /\ chan # <<>>
  /\ LET i == RecvIndex(chan)
         item == chan[i]
     IN /\ item.tag = Redraw
        /\ handled' = Append(handled, Tag(item))
        /\ \E sizeOk, renderOk, swapOk \in BOOLEAN :
             LET rl == IF sizeOk
                         THEN Append(renderLog, [id |-> item.id,
                                                 fresh |-> (RenderSize(item) = winSize),
                                                 ok |-> renderOk])
                         ELSE renderLog
                 swapped == sizeOk /\ OnRenderResult(renderOk) = "swap"
                 sl == IF swapped THEN Append(swapLog, [id |-> item.id, ok |-> swapOk])
                       ELSE swapLog
                 next == IF ~sizeOk THEN "teardown"
                         ELSE IF swapped THEN OnSwapResult(swapOk)
                         ELSE OnRenderResult(renderOk)
             IN /\ renderLog' = rl
                /\ zeroRendered' = (zeroRendered
                                      \/ (sizeOk /\ (RenderSize(item)[1] = 0
                                                      \/ RenderSize(item)[2] = 0)))
                /\ firstStale' = IF sizeOk /\ firstStale = 0 /\ item.epoch # resizes
                                   THEN Len(rl) ELSE firstStale
                /\ swapLog' = sl
                /\ gpuCalls' = gpuCalls
                                \o (IF sizeOk THEN <<[call |-> "render", id |-> item.id]>>
                                    ELSE <<>>)
                                \o (IF swapped THEN <<[call |-> "swap", id |-> item.id]>>
                                    ELSE <<>>)
                /\ pc' = next
                /\ LeaveOrStay(next, RemoveAt(chan, i))
                /\ IF next = "teardown"
                     THEN /\ exitCause' = IF ~sizeOk THEN "size"
                                          ELSE IF ~swapped THEN "render" ELSE "swap"
                          /\ atExit' = CountsOf(handled', polled, pollCalls, rl, sl)
                     ELSE UNCHANGED <<exitCause, atExit>>
  /\ UNCHANGED <<setupLog, attrZero, winVars, ctxVars, sentLog, sendAttempts,
                 cbFailed, cbVars, engineVars>>

\* the loop receives an MpvEvents: the drain starts
RecvMpvEvents ==
  /\ pc = "recv"
  /\ chan # <<>>
  /\ LET i == RecvIndex(chan)
         item == chan[i]
     IN /\ item.tag = MpvEvents
        /\ chan' = RemoveAt(chan, i)
        /\ handled' = Append(handled, Tag(item))
  /\ pc' = "drain"
  /\ drainSnapshot' = {engineQueue[k].id : k \in 1..Len(engineQueue)}
  /\ UNCHANGED <<owned, released, exitCause, atExit, setupLog, attrZero, winVars,
                 ctxVars, sentLog, sendAttempts, cbFailed, cbVars, wakeupPending,
                 engineQueue, unsignalled, emitted, polled, pollCalls, gpuVars>>

\* one mpv.wait_event(0.0) of the drain and the match on its result
PollEvent ==
  /\ pc = "drain"
  /\ PollReady(engineQueue)
  /\ pollCalls' = pollCalls + 1
  /\ IF engineQueue = <<>>
       THEN /\ pc' = "recv"
            /\ UNCHANGED <<engineQueue, unsignalled, polled, exitCause, atExit, owned,
                           released, chan>>
       ELSE LET e == Head(engineQueue)
            IN /\ engineQueue' = Tail(engineQueue)
               /\ unsignalled' = IF unsignalled > 0 THEN unsignalled - 1 ELSE 0
               /\ polled' = Append(polled, e)
               /\ pc' = AfterPoll(e.kind)
               /\ LeaveOrStay(AfterPoll(e.kind), chan)
               /\ IF AfterPoll(e.kind) = "teardown"
                    THEN /\ exitCause' = e.kind
                         /\ atExit' = CountsOf(handled, polled', pollCalls', renderLog,
                                                swapLog)
                    ELSE UNCHANGED <<exitCause, atExit>>
  /\ UNCHANGED <<setupLog, attrZero, winVars, ctxVars, sentLog, sendAttempts, handled,
                 cbFailed, cbVars, wakeupPending, emitted, drainSnapshot, gpuVars>>

Next ==
  \/ GetHandles \/ CreateDisplay \/ BuildSurfaceAttributes \/ SelectConfig
  \/ CreateSurface \/ CreateContext \/ MakeCurrent \/ CreateEngine \/ CreateBridge
  \/ CreateChannel \/ RegisterUpdate \/ RegisterWakeup \/ LoadFile
  \/ RecvRedraw \/ RecvMpvEvents \/ PollEvent \/ Release
  \/ Resize \/ UpdateCallback \/ EngineEmit \/ WakeupCallback

Spec == Init /\ [][Next]_vars

\* ---- the thread under a fair scheduler -------------------------------------
\* the steps of the spawned thread, from the first unwrap to the last drop
ThreadStep ==
  \/ GetHandles \/ CreateDisplay \/ BuildSurfaceAttributes \/ SelectConfig
  \/ CreateSurface \/ CreateContext \/ MakeCurrent \/ CreateEngine \/ CreateBridge
  \/ CreateChannel \/ RegisterUpdate \/ RegisterWakeup \/ LoadFile
  \/ RecvRedraw \/ RecvMpvEvents \/ PollEvent \/ Release

\* a window of a fixed non-zero size that the host leaves alone
LiveInit == Init /\ winSize = <<MaxDim, MaxDim>>

LiveNext == ThreadStep \/ UpdateCallback \/ EngineEmit \/ WakeupCallback

\* the OS runs the spawned thread whenever it can take a step; nothing is
\* assumed of the threads of mpv
LiveSpec == LiveInit /\ [][LiveNext]_vars /\ WF_vars(ThreadStep)

TypeOK ==
  /\ pc \in SetupStepSet \cup {"recv", "drain", "teardown", "done"}
  /\ winSize \in Sizes
  /\ Len(chan) <= MaxSends
  /\ Len(engineQueue) <= MaxEvents

\* ---- properties -----------------------------------------------------------
Gone == pc \in {"teardown", "done"}
PolledIds == {polled[i].id : i \in 1..Len(polled)}
SwapIds == {swapLog[i].id : i \in 1..Len(swapLog)}

\* C1: the loop handles the channel items in the order the sends were
\* accepted, whatever their tags: the k-th item handled is the k-th item sent.
C1_FifoOrder ==
  /\ Len(handled) <= Len(sentLog)
  /\ \A k \in 1..Len(handled) : handled[k] = sentLog[k]

C1_Witness ==
  /\ Len(handled) >= 2
  /\ handled[1].tag = MpvEvents
  /\ handled[2].tag = Redraw

\* C2: when the loop is back at the channel after an MpvEvents item whose
\* drain met no EndOfMedia and no Error, every event that was queued when the
\* item was received has been polled (the drain ran until wait_event returned
\* None), however many there were.
C2_DrainToEmpty ==
  (pc \notin {"drain"} /\ exitCause \notin {"EndOfMedia", "Error"})
    => drainSnapshot \subseteq PolledIds

C2_Witness ==
  /\ pc = "recv"
  /\ Cardinality(drainSnapshot) >= 2
  /\ handled # <<>>
  /\ Last(handled).tag = MpvEvents

\* C3: a polled EndOfMedia is the last thing the thread does: it is the last
\* event polled, the thread is unwinding or gone, and since that poll nothing
\* has been received, polled, rendered or swapped, whatever was still queued
\* in the engine or pending in the channel.
C3_EndOfMediaStops ==
  \A i \in 1..Len(polled) :
    polled[i].kind = "EndOfMedia" =>
      /\ i = Len(polled)
      /\ Gone
      /\ exitCause = "EndOfMedia"
      /\ Counts = atExit

C3_Witness ==
  /\ exitCause = "EndOfMedia"
  /\ engineQueue # <<>>
  /\ Len(sentLog) > Len(handled)

\* C4: a polled Error ends the thread with no further poll; a polled Other
\* leaves the thread in the drain, which goes on with the next poll.
C4_ErrorStopsOtherContinues ==
  /\ [](\A i \in 1..Len(polled) :
          polled[i].kind = "Error" =>
            /\ i = Len(polled)
            /\ Gone
            /\ exitCause = "Error"
            /\ pollCalls = atExit.pollCalls)
  /\ [][(polled' # polled /\ Last(polled').kind = "Other")
          => (pc' = "drain" /\ exitCause' = "none")]_vars

C4_Witness ==
  /\ Len(polled) >= 2
  /\ polled[1].kind = "Other"
  /\ polled[2].kind = "Error"
  /\ pc = "done"

\* C5: every render is issued with the size the window has when its Redraw
\* item is handled, which may differ from the size at the time of the send and
\* from the size of the previous render.
C5_RenderAtConsumeSize ==
  \A i \in 1..Len(renderLog) : renderLog[i].fresh

C5_Witness ==
  /\ Len(renderLog) >= 2
  /\ firstStale = 2

\* C6: on every exit path the resources are dropped in the order Bridge,
\* Engine, Context/Surface, Display; the Display is not dropped while another
\* resource is alive, and a finished thread owns nothing.
Rank(r) ==
  CASE r = "Bridge" -> 1
    [] r = "Engine" -> 2
    [] r = "Context" -> 3
    [] r = "Surface" -> 3
    [] r = "Display" -> 4

C6_ReleaseOrder ==
  /\ \A i, j \in 1..Len(released) :
       (i < j /\ released[i] # "Receiver" /\ released[j] # "Receiver")
         => Rank(released[i]) <= Rank(released[j])
  /\ "Display" \in Range(released)
       => Range(owned) \cap {"Bridge", "Engine", "Context", "Surface"} = {}
  /\ pc = "done" => owned = <<>>
  /\ Range(owned) \cap Range(released) = {}

C6_Witness ==
  /\ pc = "done"
  /\ exitCause = "swap"
  /\ released = <<"Receiver", "Bridge", "Engine", "Context", "Surface", "Display">>

\* C7: make_current is called at most once, by the background thread; from
\* the activation on it has been called exactly once, and the context is never
\* current on another thread.
C7_SingleActivation ==
  /\ makeCurrentCalls <= 1
  /\ currentOn \in {"none", "background"}
  /\ makeCurrentCalls = 1 <=> "activate" \in Range(setupLog)
  /\ (Alive("Engine") \/ pc \in {"engine", "recv", "drain"})
       => (makeCurrentCalls = 1 /\ currentOn = "background")

C7_Witness ==
  /\ pc = "done"
  /\ makeCurrentCalls = 1
  /\ renderLog # <<>>
  /\ currentOn = "none"

GpuSteps == {"display", "config", "surface", "context", "activate"}

\* C8 as stated: a window with a zero dimension at start-up never gets any
\* GPU setup step.
C8_NoGpuSetupOnZeroSize ==
  startZero => Range(setupLog) \cap GpuSteps = {}

\* C8 amended: if the window has a zero dimension when
\* build_surface_attributes reads its size, the thread ends there: the display
\* has been created before, and no config is selected and no surface or
\* context is created or activated.
C8_ZeroSizeStopsAfterDisplay ==
  attrZero = "zero" =>
    /\ Gone
    /\ exitCause = "attrs"
    /\ "display" \in Range(setupLog)
    /\ Range(setupLog) \cap {"config", "surface", "context", "activate"} = {}
    /\ Range(owned) \cup Range(released) = {"Display"}

C8_Witness ==
  /\ attrZero = "zero"
  /\ pc = "done"
  /\ released = <<"Display">>

\* C9: a failed setup step ends the thread before the loop: nothing is ever
\* received from the channel, rendered, swapped or polled.
C9_SetupFailureNoLoop ==
  exitCause \in SetupStepSet =>
    /\ Gone
    /\ handled = <<>>
    /\ renderLog = <<>>
    /\ swapLog = <<>>
    /\ polled = <<>>
    /\ pollCalls = 0

C9_Witness ==
  /\ exitCause = "load"
  /\ pc = "done"
  /\ sentLog # <<>>

\* C10: a failed render or a failed swap ends the thread: a failed render is
\* not followed by a swap for its item, nothing is received, polled, rendered
\* or swapped afterwards, and the finished thread has dropped all it owned.
C10_RedrawFailureTerminates ==
  /\ \A i \in 1..Len(renderLog) :
       ~renderLog[i].ok =>
         /\ i = Len(renderLog)
         /\ renderLog[i].id \notin SwapIds
         /\ exitCause = "render"
         /\ Gone
         /\ Counts = atExit
  /\ \A i \in 1..Len(swapLog) :
       ~swapLog[i].ok =>
         /\ i = Len(swapLog)
         /\ exitCause = "swap"
         /\ Gone
         /\ Counts = atExit
  /\ (pc = "done" /\ exitCause \in {"render", "swap"}) =>
       /\ owned = <<>>
       /\ Range(released) = {"Receiver", "Bridge", "Engine", "Context", "Surface",
                             "Display"}

C10_Witness ==
  /\ pc = "done"
  /\ exitCause = "render"
  /\ Len(sentLog) > Len(handled)

\* C11: leaving the loop is final: from the moment the thread has left (or
\* failed to enter) the loop it only unwinds and ends, it never is at the
\* channel or in a drain again, and it receives, polls, renders and swaps
\* nothing more, whatever the callbacks send in the meantime.
C11_TerminatingAbsorbing ==
  /\ [](exitCause # "none" => (Gone /\ Counts = atExit))
  /\ [][Gone => (Gone' /\ exitCause' = exitCause /\ Counts' = Counts)]_vars

C11_Witness ==
  /\ pc = "done"
  /\ exitCause = "Error"
  /\ Len(sentLog) > Len(handled)

\* C12: a call of either callback makes exactly one send and does nothing
\* else: while the receiver exists the channel grows by one item carrying the
\* callback's own tag. Every render, swap and poll is a step of the background
\* thread inside its loop, with the context current on that thread; no step of
\* a callback or of the host makes one.
C12_CallbacksOnlySend ==
  /\ [][sendAttempts' # sendAttempts =>
          /\ sendAttempts' = sendAttempts + 1
          /\ UNCHANGED <<pc, owned, released, exitCause, handled, polled, pollCalls,
                         engineQueue, renderLog, swapLog, gpuCalls, currentOn,
                         makeCurrentCalls, winSize, cbFailed>>
          /\ IF Alive("Receiver")
               THEN /\ Len(chan') = Len(chan) + 1
                    /\ SubSeq(chan', 1, Len(chan)) = chan
                    /\ Last(chan').tag = IF wakeupPending' # wakeupPending
                                           THEN MpvEvents ELSE Redraw
               ELSE chan' = chan]_vars
  /\ [][(renderLog' # renderLog \/ swapLog' # swapLog \/ polled' # polled
           \/ pollCalls' # pollCalls) =>
          /\ pc \in {"recv", "drain"}
          /\ currentOn = "background"
          /\ sendAttempts' = sendAttempts
          /\ winSize' = winSize]_vars

C12_Witness ==
  /\ Len(sentLog) >= 2
  /\ sentLog[1].tag = Redraw
  /\ sentLog[2].tag = MpvEvents
  /\ renderLog # <<>>
  /\ polled # <<>>

\* C13 as stated: a thread that has left the loop without a failed render or
\* swap has left it on an EndOfMedia or an Error.
C13_OnlyEngineEventsEnd ==
  (/\ exitCause \notin SetupStepSet \cup {"none"}
   /\ \A i \in 1..Len(renderLog) : renderLog[i].ok
   /\ \A i \in 1..Len(swapLog) : swapLog[i].ok)
    => exitCause \in {"EndOfMedia", "Error"}

\* C13 amended: the thread leaves the loop only in a step that polls an
\* EndOfMedia or an Error, or in the handling of a Redraw whose size query,
\* render or swap fails; no other step ends the loop, in particular none taken
\* with an empty channel.
C13_LoopExitCauses ==
  /\ [][(pc \in {"recv", "drain"} /\ pc' \notin {"recv", "drain"}) =>
          \/ /\ pc = "drain"
             /\ Len(polled') = Len(polled) + 1
             /\ Last(polled').kind \in {"EndOfMedia", "Error"}
             /\ exitCause' = Last(polled').kind
          \/ /\ pc = "recv"
             /\ chan # <<>>
             /\ Len(handled') = Len(handled) + 1
             /\ Last(handled').tag = Redraw
             /\ exitCause' \in {"size", "render", "swap"}]_vars
  /\ [](exitCause = "size" =>
          (handled # <<>> /\ \A i \in 1..Len(renderLog) :
                               renderLog[i].id # Last(handled).id))
  /\ [](exitCause = "render" => (renderLog # <<>> /\ ~Last(renderLog).ok))
  /\ [](exitCause = "swap" => (swapLog # <<>> /\ ~Last(swapLog).ok))

C13_Witness ==
  /\ pc = "done"
  /\ exitCause = "size"
  /\ \A i \in 1..Len(renderLog) : renderLog[i].ok

RedrawsHandled == SelectSeq(handled, LAMBDA x : x.tag = Redraw)
ExpectedGpuCalls ==
  LET rh == RedrawsHandled
  IN [k \in 1..(2 * Len(rh)) |->
        IF k % 2 = 1 THEN [call |-> "render", id |-> rh[(k + 1) \div 2].id]
        ELSE [call |-> "swap", id |-> rh[k \div 2].id]]
OkRenders == SelectSeq(renderLog, LAMBDA r : r.ok)

\* C14: the GPU calls are, Redraw item by Redraw item in the order received,
\* one render then one swap for that item, complete before the next item is
\* received; as long as no Redraw handling has failed there are as many
\* successful renders, and as many swaps, as Redraw items received.
C14_OneRenderOneSwapPerRedraw ==
  LET expected == ExpectedGpuCalls
      redraws == Len(RedrawsHandled)
      okRenders == Len(OkRenders)
  IN /\ Len(gpuCalls) <= Len(expected)
     /\ \A k \in 1..Len(gpuCalls) : gpuCalls[k] = expected[k]
     /\ exitCause \notin {"size", "render", "swap"} =>
          /\ gpuCalls = expected
          /\ okRenders = redraws
          /\ Len(swapLog) = redraws
          /\ \A i \in 1..Len(swapLog) : swapLog[i].ok
     /\ exitCause \in {"size", "render", "swap"} => okRenders + 1 >= redraws

C14_Witness ==
  /\ pc = "recv"
  /\ exitCause = "none"
  /\ Len(RedrawsHandled) >= 2
  /\ Len(gpuCalls) = 4

\* C15: the thread waits only at the channel: in a drain the next poll can
\* always be taken, whatever the engine queue holds, and at the channel a
\* receive can be taken exactly when an item is pending. A poll on an empty
\* queue returns None at once: it ends the drain, the thread is back at the
\* channel, still running, and nothing else has changed.
C15_OnlyRecvBlocks ==
  /\ [](pc = "drain" => ENABLED PollEvent)
  /\ [](pc = "recv" => ((ENABLED (RecvRedraw \/ RecvMpvEvents)) <=> chan # <<>>))
  /\ [][(pc = "drain" /\ engineQueue = <<>> /\ pollCalls' # pollCalls) =>
          /\ pc' = "recv"
          /\ pollCalls' = pollCalls + 1
          /\ UNCHANGED <<polled, engineQueue, exitCause, owned, released, chan,
                         handled, renderLog, swapLog>>]_vars

C15_Witness ==
  /\ pc = "recv"
  /\ exitCause = "none"
  /\ Len(handled) >= 2
  /\ Last(handled).tag = MpvEvents
  /\ drainSnapshot = {}
  /\ polled # <<>>
  /\ engineQueue = <<>>

ClaimedOrder == <<"display", "config", "surface", "context", "activate", "engine",
                  "bridge", "regUpdate", "regWakeup", "load">>
ClaimedSteps == {"display", "config", "surface", "context", "activate", "engine",
                 "bridge", "regUpdate", "regWakeup", "load"}
ClaimedStepsDone == SelectSeq(setupLog, LAMBDA st : st \in ClaimedSteps)

\* C16: the setup steps are taken in the order display, config, surface,
\* context, make_current, engine, bridge, update callback, wakeup callback,
\* load, each at most once and none before its predecessors; the bridge is
\* created with the context current and the engine alive, the load is issued
\* with both callbacks registered, and nothing is received before the load.
C16_SetupOrder ==
  /\ LET done == ClaimedStepsDone
     IN /\ Len(done) <= Len(ClaimedOrder)
        /\ \A i \in 1..Len(done) : done[i] = ClaimedOrder[i]
  /\ "bridge" \in Range(setupLog) => makeCurrentCalls = 1
  /\ Alive("Bridge") => (Alive("Engine") /\ currentOn = "background")
  /\ pc = "bridge" => (Alive("Engine") /\ currentOn = "background")
  /\ pc = "load" => (updateCb /\ wakeupCb)
  /\ "load" \in Range(setupLog) => {"regUpdate", "regWakeup"} \subseteq Range(setupLog)
  /\ pc \in {"recv", "drain"} => (Last(setupLog) = "load" /\ exitCause = "none")
  /\ handled # <<>> => "load" \in Range(setupLog)

C16_Witness ==
  /\ ClaimedStepsDone = ClaimedOrder
  /\ handled # <<>>
  /\ sentLog[1].id = 1
  /\ pc = "recv"

\* C17: no render call is issued with a zero width or a zero height.
C17_RenderNonZero ==
  ~zeroRendered

\* ---- wakeups ----------------------------------------------------------------
MpvEventsPending == \E i \in 1..Len(chan) : chan[i].tag = MpvEvents
QueuedIds == {engineQueue[k].id : k \in 1..Len(engineQueue)}
\* the queue holds an event for which mpv has called, or still owes, the
\* wakeup callback
Signalled == Len(engineQueue) > unsignalled

\* C18 as stated: while the thread waits at the channel, a non-empty engine
\* queue always comes with an MpvEvents item in the channel.
C18_SignalAlwaysPending ==
  (pc = "recv" /\ exitCause = "none" /\ engineQueue # <<>>) => MpvEventsPending

\* C18 amended: while the thread is at the channel and the engine queue holds an
\* event that mpv has raised a wakeup for, an MpvEvents item is in the channel
\* or the call of the wakeup callback is still outstanding; and once an
\* MpvEvents item is in the channel or a drain is running, every event in the
\* queue, whenever it was queued, is polled unless the thread leaves the loop
\* first.
C18_NoLostWakeup ==
  /\ []((pc = "recv" /\ Signalled) => (MpvEventsPending \/ wakeupPending))
  /\ \A id \in 1..MaxEvents :
       (id \in QueuedIds /\ exitCause = "none" /\ (MpvEventsPending \/ pc = "drain"))
         ~> (id \in PolledIds \/ exitCause # "none")

C18_Witness ==
  /\ pc = "recv"
  /\ exitCause = "none"
  /\ polled # <<>>
  /\ Signalled
  /\ wakeupPending
  /\ ~MpvEventsPending

\* C19: a callback called after the receiver has been dropped, while the
\* bridge or the engine is still alive, can run (it does not wait), does not
\* panic, and changes nothing but the count of send attempts (and the wakeup
\* the engine owed): nothing is queued, received, polled, rendered or swapped.
C19_FailedSendIgnored ==
  /\ [](~cbFailed)
  /\ []((updateCb /\ ~Alive("Receiver") /\ sendAttempts < MaxSends)
          => ENABLED UpdateCallback)
  /\ []((wakeupCb /\ wakeupPending /\ ~Alive("Receiver") /\ sendAttempts < MaxSends)
          => ENABLED WakeupCallback)
  /\ [][(sendAttempts' # sendAttempts /\ ~Alive("Receiver")) =>
          UNCHANGED <<pc, owned, released, exitCause, chan, sentLog, handled, polled,
                      pollCalls, engineQueue, renderLog, swapLog, gpuCalls>>]_vars

C19_Witness ==
  /\ "Receiver" \in Range(released)
  /\ Alive("Bridge")
  /\ Alive("Engine")
  /\ sendAttempts > Len(sentLog)

\* ---- liveness of redraws ---------------------------------------------------
RedrawPending(id) == \E i \in 1..Len(chan) : chan[i].tag = Redraw /\ chan[i].id = id
RenderIds == {renderLog[i].id : i \in 1..Len(renderLog)}

====
